---- MODULE Spec2Model ----
(***************************************************************************)
(* A model of eagle_automation/diff.py ("pea diff"): the dispatch in       *)
(* diff(), the page loop of diff_visual() with its temporary directories,  *)
(* the channel arithmetic of the change composite, and the library         *)
(* comparison of diff_semantic() (diff_packages, diff_devices).            *)
(*                                                                         *)
(* Each of the four parts has its own specification over the same          *)
(* variables; the variables of the parts that are not running stay at      *)
(* their idle values.                                                      *)
(***************************************************************************)
EXTENDS Integers, Sequences, FiniteSets

VARIABLES
    \* ---- diff_semantic ----
    libf,        \* pyeagle.open(from_file): [packages, device_sets]
    libt,        \* pyeagle.open(to_file)
    s_pc,        \* position in diff_semantic
    todo,        \* common packages the loop of diff_packages has not visited
    report,      \* the lines printed so far
    s_error,     \* the exception that left diff_semantic, or "none"
    \* ---- diff ----
    d_args,      \* the extensions of from_file and to_file, semantic, config.SEMANTIC_DIFF
    d_pc,        \* "call" or "returned"
    d_ran,       \* the strategies diff() ran, in order
    d_log,       \* what diff() logged with log.error
    \* ---- the change composite of one page ----
    a_im,        \* the "L" image of from_file's page, one row of pixels
    b_im,        \* the "L" image of to_file's page
    added,       \* the channels of lines 152-154 (<<>> until computed)
    deled,
    same,
    im,          \* the RGB composite of line 160 (<<>> until computed)
    c_pc,        \* position in the body of the page loop
    \* ---- diff_visual ----
    v_args,      \* page, whether output was given, the files' extension, whether config.OPEN exists
    v_from,      \* what reading from_file as UTF-8 text gives
    v_to,        \* what reading to_file as UTF-8 text gives
    v_pc,        \* position in diff_visual
    first,
    last,
    page,        \* the loop variable of line 133
    pages,       \* the pages whose PDF was appended (line 165)
    rendered,    \* the to_png calls that returned an image
    tmpdirs,     \* the temporary directories that exist
    assembled,   \* whether pdf_concatenate wrote the output
    v_log,       \* the last message of lines 167-178
    v_error      \* the exception that left diff_visual

sem_vars == <<libf, libt, s_pc, todo, report, s_error>>
dis_vars == <<d_args, d_pc, d_ran, d_log>>
img_vars == <<a_im, b_im, added, deled, same, im, c_pc>>
vis_vars == <<v_args, v_from, v_to, v_pc, first, last, page, pages, rendered,
              tmpdirs, assembled, v_log, v_error>>

NoError == [type |-> "none", line |-> 0, context |-> "none"]
Unread == [readable |-> FALSE, schematic |-> FALSE, boards |-> 0, sheets |-> 0]

\* The idle values of the parts a specification does not run.
SemIdle ==
    /\ libf = [packages |-> <<>>, device_sets |-> {}]
    /\ libt = [packages |-> <<>>, device_sets |-> {}]
    /\ s_pc = "idle"
    /\ todo = {}
    /\ report = <<>>
    /\ s_error = "none"

DisIdle ==
    /\ d_args = [from_ext |-> "", to_ext |-> "", semantic |-> FALSE, SEMANTIC_DIFF |-> FALSE]
    /\ d_pc = "idle"
    /\ d_ran = <<>>
    /\ d_log = "none"

VisIdle ==
    /\ v_args = [page |-> 0, output |-> FALSE, ext |-> "", open_found |-> FALSE]
    /\ v_from = Unread
    /\ v_to = Unread
    /\ v_pc = "idle"
    /\ first = 1
    /\ last = 1
    /\ page = 0
    /\ pages = <<>>
    /\ rendered = 0
    /\ tmpdirs = {}
    /\ assembled = FALSE
    /\ v_log = "none"
    /\ v_error = NoError

ImgIdle ==
    /\ a_im = <<>>
    /\ b_im = <<>>
    /\ added = <<>>
    /\ deled = <<>>
    /\ same = <<>>
    /\ im = <<>>
    /\ c_pc = "idle"

\* ------------------------------------------------------------------------
\* diff_semantic: the library model
\* ------------------------------------------------------------------------

\* Largest number of pads of the two libraries together (SpecSem).
MaxPads == 2
\* Largest number of pads of the two libraries together (SpecPads).
MaxPadsDetail == 4

PkgNames == {"A", "B", "C"}
PkgNamesDetail == {"A", "B"}
DevNames == {"D1"}
PadNames == {"1", "2"}
PadShapes == {"round", "square"}

\* A pad as pyeagle exposes it: its name and its other attributes.
Pads == [name : PadNames, shape : PadShapes]

PadSeqs(n) == UNION {[1..k -> Pads] : k \in 0..n}

NoPackages == [x \in {} |-> <<>>]

RECURSIVE TotalPads(_)
TotalPads(m) ==
    IF DOMAIN m = {} THEN 0
    ELSE LET p == CHOOSE x \in DOMAIN m : TRUE
         IN Len(m[p]) + TotalPads([x \in DOMAIN m \ {p} |-> m[x]])

\* Every mapping of a subset of `names` to pad lists with at most n pads in all.
RECURSIVE PackageMaps(_, _)
PackageMaps(names, n) ==
    IF names = {} THEN {NoPackages}
    ELSE LET p == CHOOSE x \in names : TRUE
             rest == PackageMaps(names \ {p}, n)
         IN rest \cup
            UNION {{[x \in DOMAIN m \cup {p} |-> IF x = p THEN s ELSE m[x]] :
                       s \in PadSeqs(n - TotalPads(m))} : m \in rest}

\* repr(pad): the text both sides are compared by.
repr(pad) == <<"Pad", pad.name, pad.shape>>

\* The orders in which iterating a Python set may visit its members.
Orderings(S) ==
    {s \in [1..Cardinality(S) -> S] : \A i, j \in DOMAIN s : s[i] = s[j] => i = j}

\* {x.name: x for x in pads}: a later pad replaces an earlier one of the same
\* name and keeps the earlier one's place in the iteration order.
RECURSIVE PadDict(_)
PadDict(pads) ==
    IF pads = <<>> THEN [keys |-> <<>>, val |-> [k \in {} |-> 0]]
    ELSE LET d == PadDict(SubSeq(pads, 1, Len(pads) - 1))
             x == pads[Len(pads)]
         IN [keys |-> IF x.name \in DOMAIN d.val THEN d.keys
                      ELSE Append(d.keys, x.name),
             val  |-> [k \in DOMAIN d.val \cup {x.name} |->
                          IF k = x.name THEN x ELSE d.val[k]]]

\* The printed lines.
Header(kind) == [kind |-> kind]
NameLine(kind, x) == [kind |-> kind, name |-> x]
CountLine(p) == [kind |-> "pad_count", pkg |-> p]
PadsLine(p, key, a, b) == [kind |-> "pads_differ", pkg |-> p, pad |-> key,
                           a |-> repr(a), b |-> repr(b)]

NameLines(kind, order) == [i \in DOMAIN order |-> NameLine(kind, order[i])]

\* Line 203 with the two libraries exchanged.
missing_new_mut(lf, lt) == DOMAIN lt.packages \ DOMAIN lf.packages
\* Lines 203-204.
missing_new(lf, lt) == DOMAIN lf.packages \ DOMAIN lt.packages
missing_old(lf, lt) == DOMAIN lt.packages \ DOMAIN lf.packages

\* Lines 205-210 with the two blocks exchanged.
SetDiffLines_mut(old_only, new_only) ==
    (IF new_only = <<>> THEN <<>>
     ELSE <<Header("pkg_new_hdr")>> \o NameLines("pkg_new", new_only))
    \o (IF old_only = <<>> THEN <<>>
        ELSE <<Header("pkg_old_hdr")>> \o NameLines("pkg_old", old_only))
\* Lines 205-210: the "in old not in new" block, then the "missing from old" block.
SetDiffLines(old_only, new_only) ==
    (IF old_only = <<>> THEN <<>>
     ELSE <<Header("pkg_old_hdr")>> \o NameLines("pkg_old", old_only))
    \o (IF new_only = <<>> THEN <<>>
        ELSE <<Header("pkg_new_hdr")>> \o NameLines("pkg_new", new_only))

\* Lines 225-228 from the i-th key of pads_f on: the lines printed, and whether
\* pads_t[key] raised KeyError.
RECURSIVE ComparePads(_, _, _, _)
ComparePads(p, pads_f, pads_t, i) ==
    IF i > Len(pads_f.keys) THEN [lines |-> <<>>, raised |-> FALSE]
    ELSE LET key == pads_f.keys[i]
         IN IF key \notin DOMAIN pads_t.val
            THEN [lines |-> <<>>, raised |-> TRUE]
            ELSE LET a == pads_f.val[key]
                     b == pads_t.val[key]
                     r == ComparePads(p, pads_f, pads_t, i + 1)
                 IN [lines |-> (IF repr(a) # repr(b)
                                THEN <<PadsLine(p, key, a, b)>> ELSE <<>>)
                               \o r.lines,
                     raised |-> r.raised]

\* Lines 214-228: one pass of the loop body for package p.
ComparePackage(p) ==
    LET real_f == libf.packages[p]
        real_t == libt.packages[p]
    IN IF Len(real_f) # Len(real_t)
       THEN [lines |-> <<CountLine(p)>>, raised |-> FALSE]
       ELSE ComparePads(p, PadDict(real_f), PadDict(real_t), 1)

\* Lines 201-210.
diff_packages_sets ==
    /\ s_pc = "diff_packages"
    /\ \E old_only \in Orderings(missing_new(libf, libt)),
          new_only \in Orderings(missing_old(libf, libt)) :
          report' = report \o SetDiffLines(old_only, new_only)
    /\ todo' = DOMAIN libf.packages \cap DOMAIN libt.packages
    /\ s_pc' = "packages_loop"
    /\ UNCHANGED <<libf, libt, s_error, dis_vars, img_vars, vis_vars>>

\* Lines 212-228: the loop visits the common packages in the set's order.
diff_packages_loop ==
    /\ s_pc = "packages_loop"
    /\ \E p \in todo :
          LET r == ComparePackage(p)
          IN /\ report' = report \o r.lines
             /\ todo' = todo \ {p}
             /\ s_pc' = IF r.raised THEN "raised" ELSE "packages_loop"
             /\ s_error' = IF r.raised THEN "KeyError" ELSE s_error
    /\ UNCHANGED <<libf, libt, dis_vars, img_vars, vis_vars>>

\* Lines 232-243, called at line 252 once diff_packages returned.
diff_devices ==
    /\ s_pc = "packages_loop"
    /\ todo = {}
    /\ \E old_only \in Orderings(libf.device_sets \ libt.device_sets),
          new_only \in Orderings(libt.device_sets \ libf.device_sets) :
          report' = report
              \o (IF old_only = <<>> THEN <<>>
                  ELSE <<Header("dev_old_hdr")>> \o NameLines("dev_old", old_only))
              \o (IF new_only = <<>> THEN <<>>
                  ELSE <<Header("dev_new_hdr")>> \o NameLines("dev_new", new_only))
    /\ s_pc' = "done"
    /\ UNCHANGED <<libf, libt, todo, s_error, dis_vars, img_vars, vis_vars>>

Libraries(names, n) ==
    {[packages |-> m, device_sets |-> d] : m \in PackageMaps(names, n), d \in SUBSET DevNames}

SemStart ==
    /\ s_pc = "diff_packages"
    /\ todo = {}
    /\ report = <<>>
    /\ s_error = "none"

InitSem ==
    /\ libf \in Libraries(PkgNames, MaxPads)
    /\ libt \in Libraries(PkgNames, MaxPads - TotalPads(libf.packages))
    /\ SemStart
    /\ DisIdle
    /\ ImgIdle
    /\ VisIdle

InitPads ==
    /\ libf \in Libraries(PkgNamesDetail, MaxPadsDetail)
    /\ libt \in Libraries(PkgNamesDetail, MaxPadsDetail - TotalPads(libf.packages))
    /\ SemStart
    /\ DisIdle
    /\ ImgIdle
    /\ VisIdle

NextSem == diff_packages_sets \/ diff_packages_loop \/ diff_devices

\* ------------------------------------------------------------------------
\* diff(): the choice of strategy (lines 255-273)
\* ------------------------------------------------------------------------

Extensions == {"brd", "sch", "lbr", "txt"}

\* Lines 267-270: whether the textual diff is the branch taken for a library.
lbr_takes_diff_text(semantic, SEMANTIC_DIFF) == semantic \/ SEMANTIC_DIFF

diff ==
    /\ d_pc = "call"
    /\ LET extension == d_args.from_ext
       IN IF d_args.to_ext # extension
          THEN d_log' = "both files should have the same extension" /\ d_ran' = d_ran
          ELSE IF extension \in {"brd", "sch"}
          THEN d_ran' = Append(d_ran, "diff_visual") /\ d_log' = d_log
          ELSE IF extension = "lbr"
          THEN /\ d_ran' = Append(d_ran,
                       IF lbr_takes_diff_text(d_args.semantic, d_args.SEMANTIC_DIFF)
                       THEN "diff_text" ELSE "diff_semantic")
               /\ d_log' = d_log
          ELSE d_log' = "skipping, not a board or schematic" /\ d_ran' = d_ran
    /\ d_pc' = "returned"
    /\ UNCHANGED <<d_args, sem_vars, img_vars, vis_vars>>

InitDiff ==
    /\ d_args \in [from_ext : Extensions, to_ext : Extensions,
                   semantic : BOOLEAN, SEMANTIC_DIFF : BOOLEAN]
    /\ d_pc = "call"
    /\ d_ran = <<>>
    /\ d_log = "none"
    /\ SemIdle
    /\ ImgIdle
    /\ VisIdle

NextDiff == diff

\* ------------------------------------------------------------------------
\* The change composite of one page (lines 141-160)
\* ------------------------------------------------------------------------

\* Widest rendered page, in pixels.
MaxWidth == 2
\* The largest sample of a mode "L" image.
MaxPixel == 255
\* The samples the rendered pages are drawn from.
Levels == {0, 1, 128, 255}

Images == UNION {[1..w -> Levels] : w \in 1..MaxWidth}

Max(x, y) == IF x >= y THEN x ELSE y

Clip(x) == IF x < 0 THEN 0 ELSE IF x > MaxPixel THEN MaxPixel ELSE x

\* Image.new("L", (width, height)) then paste(image, (0, 0)).
PasteOnNew(image, width) ==
    [i \in 1..width |-> IF i <= Len(image) THEN image[i] ELSE 0]

\* ImageChops.subtract(image1, image2): clipped to 0..255.
subtract(image1, image2) ==
    [i \in DOMAIN image1 |-> Clip(image1[i] - image2[i])]

\* ImageOps.autocontrast(image, 0): stretch the used range lo..hi to 0..255;
\* an image of one level is left as it is.
autocontrast(image) ==
    LET used == {image[i] : i \in DOMAIN image}
        lo == CHOOSE x \in used : \A y \in used : x <= y
        hi == CHOOSE x \in used : \A y \in used : x >= y
    IN IF hi <= lo THEN image
       ELSE [i \in DOMAIN image |-> Clip(((image[i] - lo) * MaxPixel) \div (hi - lo))]

\* Image.blend(im1, im2, 0.5): im1 + 0.5 * (im2 - im1), cut to an integer.
blend_half(im1, im2) ==
    [i \in DOMAIN im1 |-> (2 * im1[i] + (im2[i] - im1[i])) \div 2]

\* Line 152 with the operands of subtract exchanged.
added_of_mut(a, b) == autocontrast(subtract(a, b))
\* Line 152.
added_of(a, b) == autocontrast(subtract(b, a))
\* Line 153.
deled_of(a, b) == autocontrast(subtract(a, b))
\* Line 154.
same_of(a, b) == blend_half(a, b)

\* ImageOps.colorize(image, "#000", white): each band scaled to white's band.
colorize(image, white) ==
    [i \in DOMAIN image |-> [c \in 1..3 |-> (image[i] * white[c]) \div MaxPixel]]

\* ImageChops.add(image1, image2): clipped to 0..255, band by band.
add(image1, image2) ==
    [i \in DOMAIN image1 |-> [c \in 1..3 |-> Clip(image1[i][c] + image2[i][c])]]

\* Lines 141-150: both pages on a canvas of the larger size.
make_sizes_equal ==
    /\ c_pc = "rendered"
    /\ LET width == Max(Len(a_im), Len(b_im))
       IN /\ a_im' = PasteOnNew(a_im, width)
          /\ b_im' = PasteOnNew(b_im, width)
    /\ c_pc' = "equal"
    /\ UNCHANGED <<added, deled, same, im, sem_vars, dis_vars, vis_vars>>

\* Lines 152-154.
composite_channels ==
    /\ c_pc = "equal"
    /\ added' = added_of(a_im, b_im)
    /\ deled' = deled_of(a_im, b_im)
    /\ same' = same_of(a_im, b_im)
    /\ c_pc' = "channels"
    /\ UNCHANGED <<a_im, b_im, im, sem_vars, dis_vars, vis_vars>>

\* Lines 156-160.
colorize_and_add ==
    /\ c_pc = "channels"
    /\ im' = add(add(colorize(added, <<0, 0, 255>>), colorize(deled, <<255, 0, 0>>)),
                 colorize(same, <<119, 119, 119>>))
    /\ c_pc' = "composited"
    /\ UNCHANGED <<a_im, b_im, added, deled, same, sem_vars, dis_vars, vis_vars>>

InitImg ==
    /\ a_im \in Images
    /\ b_im \in Images
    /\ added = <<>>
    /\ deled = <<>>
    /\ same = <<>>
    /\ im = <<>>
    /\ c_pc = "rendered"
    /\ SemIdle
    /\ DisIdle
    /\ VisIdle

NextImg == make_sizes_equal \/ composite_channels \/ colorize_and_add

\* ------------------------------------------------------------------------
\* diff_visual: page detection, the page loop, the temporary directories
\* (lines 40-68 and 97-180)
\* ------------------------------------------------------------------------

\* Largest page number a caller pins.
MaxPage == 2
\* Largest number of '<sheet>' in a file.
MaxSheets == 3

\* What open(..., encoding="utf-8").read() gives: nothing when the read fails,
\* else whether '<schematic' occurs and how often '<board' and '<sheet>' do.
Texts == {Unread} \cup
         [readable : {TRUE}, schematic : BOOLEAN, boards : 0..1, sheets : 0..MaxSheets]

has_root(text) == text.schematic \/ text.boards > 0

\* Lines 112-125: the exception raised inside the try block, if any.
try_error(from, to) ==
    IF ~from.readable \/ ~to.readable THEN "ReadError"
    ELSE IF ~has_root(from) \/ ~has_root(to) THEN "SyntaxError"
    ELSE IF from.sheets # to.sheets THEN "Exception"
    ELSE "none"

\* TemporaryDirectory.__exit__: the directory is removed.
exit_with(dirs, name) == dirs \ {name}

\* An exception leaves diff_visual: every enclosing with block exits.
raise_from(err) ==
    /\ v_error' = err
    /\ tmpdirs' = exit_with(exit_with(tmpdirs, "to_png"), "diff_visual")
    /\ v_pc' = "raised"

enter_loop(f, l) ==
    /\ first' = f
    /\ last' = l
    /\ page' = f
    /\ v_pc' = IF f > l THEN "assemble" ELSE "to_png_a"

\* Lines 98-109.
diff_visual_enter ==
    /\ v_pc = "call"
    /\ tmpdirs' = tmpdirs \cup {"diff_visual"}
    /\ v_pc' = "detect"
    /\ UNCHANGED <<v_args, v_from, v_to, first, last, page, pages, rendered,
                   assembled, v_log, v_error, sem_vars, dis_vars, img_vars>>

\* Lines 111 and 130-131: a page is pinned.
detect_pinned ==
    /\ v_pc = "detect"
    /\ v_args.page # 0
    /\ enter_loop(v_args.page, v_args.page)
    /\ UNCHANGED <<v_args, v_from, v_to, pages, rendered, tmpdirs,
                   assembled, v_log, v_error, sem_vars, dis_vars, img_vars>>

\* Lines 111-125: no page pinned, the try block ends without an exception.
detect_sheets ==
    /\ v_pc = "detect"
    /\ v_args.page = 0
    /\ try_error(v_from, v_to) = "none"
    /\ enter_loop(first, IF v_from.sheets # 0 THEN v_from.sheets ELSE v_from.boards)
    /\ UNCHANGED <<v_args, v_from, v_to, pages, rendered, tmpdirs,
                   assembled, v_log, v_error, sem_vars, dis_vars, img_vars>>

\* Lines 126-127: the handler reads err.message, which no exception of the try
\* block has: AttributeError leaves the handler before line 129.
detect_handler ==
    /\ v_pc = "detect"
    /\ v_args.page = 0
    /\ try_error(v_from, v_to) # "none"
    /\ raise_from([type |-> "AttributeError", line |-> 127,
                   context |-> try_error(v_from, v_to)])
    /\ UNCHANGED <<v_args, v_from, v_to, first, last, page, pages, rendered,
                   assembled, v_log, sem_vars, dis_vars, img_vars>>

\* Line 41, called at line 135 or 136.
to_png_enter ==
    /\ v_pc \in {"to_png_a", "to_png_b"}
    /\ tmpdirs' = tmpdirs \cup {"to_png"}
    /\ v_pc' = IF v_pc = "to_png_a" THEN "png_a" ELSE "png_b"
    /\ UNCHANGED <<v_args, v_from, v_to, first, last, page, pages, rendered,
                   assembled, v_log, v_error, sem_vars, dis_vars, img_vars>>

\* Lines 50-52: os.rmdir(workdir), raise BadExtension; the with block's exit then
\* finds the directory gone, which TemporaryDirectory.cleanup ignores or raises
\* as FileNotFoundError, depending on the Python version.
to_png_bad_extension ==
    /\ v_pc \in {"png_a", "png_b"}
    /\ v_args.ext \notin {"brd", "sch"}
    /\ \E t \in {"BadExtension", "FileNotFoundError"} :
          raise_from([type |-> t, line |-> 52, context |-> "BadExtension"])
    /\ UNCHANGED <<v_args, v_from, v_to, first, last, page, pages, rendered,
                   assembled, v_log, sem_vars, dis_vars, img_vars>>

\* Lines 54-56: the exporter fails.
to_png_export_fails ==
    /\ v_pc \in {"png_a", "png_b"}
    /\ v_args.ext \in {"brd", "sch"}
    /\ raise_from([type |-> "RenderError", line |-> 56, context |-> "none"])
    /\ UNCHANGED <<v_args, v_from, v_to, first, last, page, pages, rendered,
                   assembled, v_log, sem_vars, dis_vars, img_vars>>

\* Lines 54-68: the layers are exported and blended, the with block exits.
to_png_returns ==
    /\ v_pc \in {"png_a", "png_b"}
    /\ v_args.ext \in {"brd", "sch"}
    /\ rendered' = rendered + 1
    /\ tmpdirs' = exit_with(tmpdirs, "to_png")
    /\ v_pc' = IF v_pc = "png_a" THEN "to_png_b" ELSE "compose"
    /\ UNCHANGED <<v_args, v_from, v_to, first, last, page, pages,
                   assembled, v_log, v_error, sem_vars, dis_vars, img_vars>>

\* Lines 141-165, then the next pass of the loop of line 133.
compose_page ==
    /\ v_pc = "compose"
    /\ pages' = Append(pages, page)
    /\ page' = page + 1
    /\ v_pc' = IF page + 1 > last THEN "assemble" ELSE "to_png_a"
    /\ UNCHANGED <<v_args, v_from, v_to, first, last, rendered, tmpdirs,
                   assembled, v_log, v_error, sem_vars, dis_vars, img_vars>>

\* Lines 167-178.
assemble ==
    /\ v_pc = "assemble"
    /\ IF Len(pages) > 0
       THEN /\ assembled' = TRUE
            /\ v_log' = IF ~v_args.output /\ ~v_args.open_found
                        THEN "Open your file manually to check it"
                        ELSE "Diff output in file"
       ELSE /\ assembled' = assembled
            /\ v_log' = "No diff output."
    /\ v_pc' = "cleanup"
    /\ UNCHANGED <<v_args, v_from, v_to, first, last, page, pages, rendered,
                   tmpdirs, v_error, sem_vars, dis_vars, img_vars>>

\* Line 180: workdir is the directory's path, a str, which has no cleanup().
workdir_cleanup ==
    /\ v_pc = "cleanup"
    /\ raise_from([type |-> "AttributeError", line |-> 180, context |-> "none"])
    /\ UNCHANGED <<v_args, v_from, v_to, first, last, page, pages, rendered,
                   assembled, v_log, sem_vars, dis_vars, img_vars>>

InitVis ==
    /\ v_args \in [page : 0..MaxPage, output : BOOLEAN,
                   ext : {"brd", "sch", "lbr"}, open_found : BOOLEAN]
    /\ v_from \in Texts
    /\ v_to \in Texts
    /\ v_pc = "call"
    /\ first = 1
    /\ last = 1
    /\ page = 0
    /\ pages = <<>>
    /\ rendered = 0
    /\ tmpdirs = {}
    /\ assembled = FALSE
    /\ v_log = "none"
    /\ v_error = NoError
    /\ SemIdle
    /\ DisIdle
    /\ ImgIdle

NextVis ==
    \/ diff_visual_enter
    \/ detect_pinned
    \/ detect_sheets
    \/ detect_handler
    \/ to_png_enter
    \/ to_png_bad_extension
    \/ to_png_export_fails
    \/ to_png_returns
    \/ compose_page
    \/ assemble
    \/ workdir_cleanup

\* ------------------------------------------------------------------------
\* The claims
\* ------------------------------------------------------------------------

DiffReturned == d_pc = "returned"
VisualEnded == v_pc \in {"returned", "raised"}
SemanticEnded == s_pc \in {"done", "raised"}

\* C1: diff() on two .lbr files with the semantic option set (the flag or
\* config.SEMANTIC_DIFF) runs diff_semantic and does not run diff_text.
C1_SemanticOptionRunsSemanticDiff ==
    (/\ DiffReturned
     /\ d_args.from_ext = "lbr"
     /\ d_args.to_ext = "lbr"
     /\ (d_args.semantic \/ d_args.SEMANTIC_DIFF))
    => d_ran = <<"diff_semantic">>

SheetCountsDiffer ==
    /\ v_args.page = 0
    /\ v_from.readable /\ v_to.readable
    /\ has_root(v_from) /\ has_root(v_to)
    /\ v_from.sheets # v_to.sheets

\* C2: with no page pinned, two readable files that both hold a root marker
\* and differ in their '<sheet>' counts make diff_visual fail with the
\* mismatch error, with no page rendered, none appended, no document assembled.
C2_SheetMismatchFails ==
    (VisualEnded /\ SheetCountsDiffer)
    => /\ v_error.type = "Exception"
       /\ v_error.line = 123
       /\ rendered = 0
       /\ pages = <<>>
       /\ ~assembled

\* C3: with no page pinned, a failed text read is not propagated and the one
\* page compared is page 1 (first = last = 1); with page N >= 1 pinned the
\* one page compared is page N.
C3_ReadFailureFallsBackToPageOne ==
    VisualEnded
    => /\ (v_args.page = 0 /\ (~v_from.readable \/ ~v_to.readable))
          => (v_error.line # 127 /\ first = 1 /\ last = 1)
       /\ v_args.page >= 1 => (first = v_args.page /\ last = v_args.page)

OldPackages == DOMAIN libf.packages
NewPackages == DOMAIN libt.packages
CommonPackages == OldPackages \cap NewPackages

LinesOf(kind) == {i \in DOMAIN report : report[i].kind = kind}

\* C4: the names printed as removed are exactly the packages of old that new
\* lacks, the names printed as added exactly those of new that old lacks, each
\* once; a package of one library only gets no pad-level line; two identical
\* libraries give an empty report.
C4_PackageSetDiff ==
    s_pc \notin {"idle", "diff_packages"}
    => /\ \A n \in PkgNames :
            /\ Cardinality({i \in LinesOf("pkg_old") : report[i].name = n})
                 = IF n \in OldPackages \ NewPackages THEN 1 ELSE 0
            /\ Cardinality({i \in LinesOf("pkg_new") : report[i].name = n})
                 = IF n \in NewPackages \ OldPackages THEN 1 ELSE 0
       /\ \A i \in LinesOf("pad_count") \cup LinesOf("pads_differ") :
            report[i].pkg \in CommonPackages
       /\ libf = libt => (report = <<>> /\ s_pc # "raised")

C4_Witness ==
    /\ s_pc = "done"
    /\ OldPackages = {"A", "B"}
    /\ NewPackages = {"B", "C"}
    /\ \E i, j \in DOMAIN report :
          /\ report[i] = NameLine("pkg_old", "A")
          /\ report[j] = NameLine("pkg_new", "C")

NamesOf(pads) == {pads[i].name : i \in DOMAIN pads}

\* The pad of that name seen last.
LastNamed(pads, k) ==
    pads[CHOOSE i \in DOMAIN pads :
            /\ pads[i].name = k
            /\ \A j \in DOMAIN pads : pads[j].name = k => j <= i]

PadLines(p, k) ==
    {i \in LinesOf("pads_differ") : report[i].pkg = p /\ report[i].pad = k}

\* C5: for every common package with equal pad counts and the same pad names
\* on both sides, each pad name whose representation differs gets exactly one
\* pad-mismatch line and every other pad name gets none.
C5_OneLinePerChangedPad ==
    SemanticEnded
    => \A p \in CommonPackages :
          (/\ Len(libf.packages[p]) = Len(libt.packages[p])
           /\ NamesOf(libf.packages[p]) = NamesOf(libt.packages[p]))
          => \A k \in NamesOf(libf.packages[p]) :
                Cardinality(PadLines(p, k))
                  = IF repr(LastNamed(libf.packages[p], k))
                         # repr(LastNamed(libt.packages[p], k))
                    THEN 1 ELSE 0

Group(line) ==
    IF line.kind \in {"pkg_new_hdr", "pkg_new"} THEN "added"
    ELSE IF line.kind \in {"pkg_old_hdr", "pkg_old"} THEN "removed"
    ELSE IF line.kind \in {"pad_count", "pads_differ"} THEN "pads"
    ELSE "devices"

\* The place of a line's group in `groups`.
Rank(groups, line) == CHOOSE a \in DOMAIN groups : groups[a] = Group(line)

InOrder(groups) ==
    \A i \in 1..(Len(report) - 1) :
       Rank(groups, report[i]) <= Rank(groups, report[i + 1])

\* C6 as claimed: package additions are printed before package removals,
\* these before the pad lines, these before the device-set lines.
C6_AdditionsThenRemovals == InOrder(<<"added", "removed", "pads", "devices">>)

\* C6 as amended: package removals (names only in old) are printed first, then
\* package additions (names only in new), then the per-package pad lines, then
\* the device-set lines.
C6_RemovalsThenAdditions == InOrder(<<"removed", "added", "pads", "devices">>)

C6_Witness ==
    /\ s_pc = "done"
    /\ \A g \in {"removed", "added", "pads", "devices"} :
          \E i \in DOMAIN report : Group(report[i]) = g

\* C9: a common package whose pad counts differ gets exactly one count line
\* and no per-pad line, every other common package is still compared and the
\* device-set diff still runs.
C9_CountMismatchContinues ==
    SemanticEnded
    => \A p \in CommonPackages :
          Len(libf.packages[p]) # Len(libt.packages[p])
          => /\ Cardinality({i \in LinesOf("pad_count") : report[i].pkg = p}) = 1
             /\ \A k \in PadNames : PadLines(p, k) = {}
             /\ todo = {}
             /\ s_pc = "done"

\* C10: a common package with equal pad counts and different pad-name sets
\* gets no line for the names of one side only, and the diff runs to its
\* end: every common package is compared and the device-set diff runs.
C10_NameMismatchCompletes ==
    SemanticEnded
    => \A p \in CommonPackages :
          (/\ Len(libf.packages[p]) = Len(libt.packages[p])
           /\ NamesOf(libf.packages[p]) # NamesOf(libt.packages[p]))
          => /\ \A k \in PadNames :
                   k \notin NamesOf(libf.packages[p]) \cap NamesOf(libt.packages[p])
                   => PadLines(p, k) = {}
             /\ todo = {}
             /\ s_pc = "done"

\* C7: every temporary directory is gone when diff_visual ends, however it
\* ends, and the release itself (line 180) never makes the call fail.
C7_ReleasedWithoutFailure ==
    /\ VisualEnded => tmpdirs = {}
    /\ v_error.line # 180

AllZero(image) == \A i \in DOMAIN image : image[i] = 0

\* C8: swapping the two pages swaps the added and the removed channel and
\* leaves the unchanged channel as it is; two equal pages give all-zero added
\* and removed channels.
C8_ChannelsSwap ==
    c_pc \in {"channels", "composited"}
    => /\ added = deled_of(b_im, a_im)
       /\ deled = added_of(b_im, a_im)
       /\ same = same_of(b_im, a_im)
       /\ a_im = b_im => (AllZero(added) /\ AllZero(deled))

C8_Witness ==
    /\ c_pc = "channels"
    /\ a_im # b_im
    /\ ~AllZero(added)
    /\ ~AllZero(deled)
    /\ \E i \in DOMAIN same : same[i] * 2 # a_im[i] + b_im[i]

vars == <<sem_vars, dis_vars, img_vars, vis_vars>>

SpecSem == InitSem /\ [][NextSem]_vars
SpecPads == InitPads /\ [][NextSem]_vars
SpecDiff == InitDiff /\ [][NextDiff]_vars
SpecImg == InitImg /\ [][NextImg]_vars
SpecVis == InitVis /\ [][NextVis]_vars

====
